---- MODULE Spec2Model ----
(***************************************************************************)
(* CayleyGraph (src/semigroups/cayley_graph.py): a directed multigraph     *)
(* kept in a networkx MultiDiGraph, beside the insertion-ordered list of   *)
(* labelled edges.  Python dicts keep insertion order, so the node dict    *)
(* and every adjacency dict of the MultiDiGraph are modelled as sequences  *)
(* without repetition.                                                     *)
(***************************************************************************)
EXTENDS Integers, Sequences, FiniteSets, TLC

VARIABLES graphs, calls, last

vars == <<graphs, calls, last>>

(* ------------------------------ bounds --------------------------------- *)

\* Spec: nodes are 0..MaxNode, at most MaxEdges calls of addEdge.
MaxNode == 2
MaxEdges == 2
\* SpecLabel: nodes are 0..LabelMaxNode, at most LabelMaxEdges calls of addEdge.
LabelMaxNode == 1
LabelMaxEdges == 2
\* SpecAdj: nodes are 0..AdjMaxNode, at most AdjMaxEdges calls of addEdge.
AdjMaxNode == 1
AdjMaxEdges == 1

\* Edge labels are generator indices; the code stores a label and never
\* inspects it, so two of them cover "equal or different labels".
Labels == {0, 1}

GraphIds == {"G", "H"}

(* ------------------------------ helpers -------------------------------- *)

Range(s) == {s[k] : k \in 1..Len(s)}

Min(S) == CHOOSE m \in S : \A k \in S : m <= k

\* What a call gives back: a value, or an exception that left no value.
Return(v) == [exc |-> "", value |-> v]

Raise(e, v) == [exc |-> e, value |-> v]

(* ------------------- networkx.MultiDiGraph (the parts used) ------------ *)

\* MultiDiGraph(): no node, no edge.  _node is the node dict (its keys in
\* insertion order); _adj[u] is u's successor dict, the successors in the order
\* of their first edge from u, each with the number of parallel edges (keys).
MultiDiGraph == [_node |-> <<>>, _adj |-> <<>>]

\* The position of node n in the node dict, 0 when n is no key of it.
node_index(G, n) ==
    IF n \in Range(G._node) THEN CHOOSE k \in 1..Len(G._node) : G._node[k] = n ELSE 0

\* G.add_node(n): a new key at the end of the node dict with an empty successor
\* dict; nothing when n is a key already.
add_node(G, n) ==
    IF n \in Range(G._node) THEN G
    ELSE [_node |-> Append(G._node, n), _adj |-> Append(G._adj, <<>>)]

\* G[u]: the successors of u, each once, in the order of their first edge.
successors(G, u) ==
    LET row == G._adj[node_index(G, u)] IN [k \in 1..Len(row) |-> row[k].nbr]

\* G.add_edge(u, v): u, then v, become nodes when they are not; v's entry in
\* u's successor dict gets one more key (a parallel edge), or is created.
add_edge(G, u, v) ==
    LET G2  == add_node(add_node(G, u), v)
        iu  == node_index(G2, u)
        row == G2._adj[iu]
        hit == {k \in 1..Len(row) : row[k].nbr = v}
    IN  IF hit = {}
        THEN [G2 EXCEPT !._adj[iu] = Append(row, [nbr |-> v, keys |-> 1])]
        ELSE [G2 EXCEPT !._adj[iu] =
                 [k \in 1..Len(row) |->
                     IF k \in hit THEN [row[k] EXCEPT !.keys = @ + 1] ELSE row[k]]]

(* ------------------------------ CayleyGraph ---------------------------- *)

\* An attribute of a Python object: bound to a value, or not there at all.
Unbound == [bound |-> FALSE, value |-> <<>>]

Bound(v) == [bound |-> TRUE, value |-> v]

\* __init__: an empty label-edge list and an empty MultiDiGraph.  The attribute
\* _adjacencies_list is not assigned.
CayleyGraph ==
    [_label_edge_list |-> <<>>, _graph |-> MultiDiGraph, _adjacencies_list |-> Unbound]

\* (a variant that inserts without looking the node up)
_add_node_unchecked(self, node) ==
    [self EXCEPT !._graph = [_node |-> Append(@._node, node),
                             _adj  |-> Append(@._adj, <<>>)]]

\* _add_node: self._graph.add_node(node).
_add_node(self, node) == [self EXCEPT !._graph = add_node(@, node)]

\* (a variant that puts the new edge in front of the list)
_add_edge_with_label_first(self, label, edge) ==
    [self EXCEPT !._graph = add_edge(@, edge[1], edge[2]),
                 !._label_edge_list = <<<<label, edge>>>> \o @]

\* (a variant that records the edge in the list and not in the MultiDiGraph)
_add_edge_with_label_list_only(self, label, edge) ==
    [self EXCEPT !._label_edge_list = Append(@, <<label, edge>>)]

\* _add_edge_with_label: self._graph.add_edge(*edge), then the labelled edge is
\* appended to _label_edge_list.
_add_edge_with_label(self, label, edge) ==
    [self EXCEPT !._graph = add_edge(@, edge[1], edge[2]),
                 !._label_edge_list = Append(@, <<label, edge>>)]

\* ordered_adjacencies(): the attribute _adjacencies_list, an AttributeError
\* when nothing ever assigned it.
ordered_adjacencies(self) ==
    IF self._adjacencies_list.bound
    THEN Return(self._adjacencies_list.value)
    ELSE Raise("AttributeError", <<>>)

\* edges(): list(map(lambda x: x[1], self._label_edge_list)).
edges(self) == [k \in 1..Len(self._label_edge_list) |-> self._label_edge_list[k][2]]

\* nodes(): the node dict's keys, in insertion order.
nodes(self) == self._graph._node

(* -------------- networkx.strongly_connected_components(G) -------------- *)

\* The algorithm's locals before the first source: preorder and lowlink are
\* dicts (0 stands for "no such key"), scc_found a set, scc_queue and queue
\* stacks, i the preorder counter, out the components yielded so far.
scc_locals(G) ==
    [preorder  |-> [n \in Range(G._node) |-> 0],
     lowlink   |-> [n \in Range(G._node) |-> 0],
     scc_found |-> {},
     scc_queue |-> <<>>,
     queue     |-> <<>>,
     i         |-> 0,
     out       |-> <<>>]

\* (a variant that takes a cross edge into a finished component for a back edge)
RECURSIVE scc_lowlink_no_found_test(_, _, _, _)
scc_lowlink_no_found_test(st, v, v_nbrs, k) ==
    IF k = 0 THEN st.preorder[v]
    ELSE LET w    == v_nbrs[k]
             prev == scc_lowlink_no_found_test(st, v, v_nbrs, k - 1)
         IN  IF st.preorder[w] > st.preorder[v]
             THEN Min({prev, st.lowlink[w]})
             ELSE Min({prev, st.preorder[w]})

\* lowlink[v] after the first k successors of v were looked at:
\*   lowlink[v] = preorder[v]
\*   for w in v_nbrs:
\*       if w not in scc_found:
\*           if preorder[w] > preorder[v]: lowlink[v] = min([lowlink[v], lowlink[w]])
\*           else:                         lowlink[v] = min([lowlink[v], preorder[w]])
RECURSIVE scc_lowlink(_, _, _, _)
scc_lowlink(st, v, v_nbrs, k) ==
    IF k = 0 THEN st.preorder[v]
    ELSE LET w    == v_nbrs[k]
             prev == scc_lowlink(st, v, v_nbrs, k - 1)
         IN  IF w \in st.scc_found THEN prev
             ELSE IF st.preorder[w] > st.preorder[v]
                  THEN Min({prev, st.lowlink[w]})
                  ELSE Min({prev, st.preorder[w]})

\* v is the root of a component:
\*   scc = {v}
\*   while scc_queue and preorder[scc_queue[-1]] > preorder[v]:
\*       k = scc_queue.pop(); scc_found.add(k); scc.add(k)
\*   yield scc
RECURSIVE scc_pop(_, _, _)
scc_pop(st, v, scc) ==
    IF /\ st.scc_queue # <<>>
       /\ st.preorder[st.scc_queue[Len(st.scc_queue)]] > st.preorder[v]
    THEN LET k == st.scc_queue[Len(st.scc_queue)]
         IN  scc_pop([st EXCEPT !.scc_queue = SubSeq(@, 1, Len(@) - 1),
                                !.scc_found = @ \cup {k}],
                     v, scc \cup {k})
    ELSE [st EXCEPT !.out = Append(@, scc)]

\* while queue: the depth-first search from one source, on an explicit stack.
\* The node v on top gets its preorder number when first seen; its first
\* successor without a preorder number is pushed; when there is none, v is done:
\* its lowlink is computed, it is popped, and it either closes a component or
\* waits on scc_queue.
RECURSIVE scc_while(_, _)
scc_while(G, st) ==
    IF st.queue = <<>> THEN st
    ELSE LET v      == st.queue[Len(st.queue)]
             s1     == IF st.preorder[v] = 0
                       THEN [st EXCEPT !.i = @ + 1, !.preorder[v] = st.i + 1]
                       ELSE st
             v_nbrs == successors(G, v)
             fresh  == {k \in 1..Len(v_nbrs) : s1.preorder[v_nbrs[k]] = 0}
         IN  IF fresh # {}
             THEN scc_while(G, [s1 EXCEPT !.queue = Append(@, v_nbrs[Min(fresh)])])
             ELSE LET low == scc_lowlink(s1, v, v_nbrs, Len(v_nbrs))
                      s2  == [s1 EXCEPT !.lowlink[v] = low,
                                        !.queue = SubSeq(@, 1, Len(@) - 1)]
                  IN  IF low = s1.preorder[v]
                      THEN scc_while(G, scc_pop([s2 EXCEPT !.scc_found = @ \cup {v}],
                                                v, {v}))
                      ELSE scc_while(G, [s2 EXCEPT !.scc_queue = Append(@, v)])

\* for source in G: if source not in scc_found: search from source.
RECURSIVE scc_for(_, _, _)
scc_for(G, st, k) ==
    IF k > Len(G._node) THEN st
    ELSE LET source == G._node[k]
         IN  IF source \in st.scc_found
             THEN scc_for(G, st, k + 1)
             ELSE scc_for(G, scc_while(G, [st EXCEPT !.queue = <<source>>]), k + 1)

\* The components in the order the generator yields them.
networkx_strongly_connected_components(G) == scc_for(G, scc_locals(G), 1).out

\* The nodes joined to n by edges taken in either direction.
RECURSIVE weakly_connected(_, _)
weakly_connected(G, S) ==
    LET T == S \cup {m \in Range(G._node) :
                       \E n \in S : m \in Range(successors(G, n))
                                      \/ n \in Range(successors(G, m))}
    IN  IF T = S THEN S ELSE weakly_connected(G, T)

\* (a variant that calls networkx.weakly_connected_components)
strongly_connected_components_weak(self) ==
    LET G     == self._graph
        first == {k \in 1..Len(G._node) :
                     \A j \in 1..(k - 1) : G._node[j] \notin weakly_connected(G, {G._node[k]})}
        at(j) == CHOOSE k \in first : Cardinality({i \in first : i < k}) = j - 1
    IN  [j \in 1..Cardinality(first) |-> weakly_connected(G, {G._node[at(j)]})]

\* (a variant that keeps the components that hold a cycle and drops the rest)
strongly_connected_components_cyclic(self) ==
    SelectSeq(networkx_strongly_connected_components(self._graph),
              LAMBDA c : \/ Cardinality(c) >= 2
                         \/ \E n \in c : n \in Range(successors(self._graph, n)))

\* strongly_connected_components(): list(networkx.strongly_connected_components(
\* self._graph)), a list of node sets.
strongly_connected_components(self) ==
    networkx_strongly_connected_components(self._graph)

(* ------------------------------ equality ------------------------------- *)

\* Python's == on two lists of lists of nodes: the same length, and equal
\* elements at every position.
list_eq(a, b) ==
    /\ Len(a) = Len(b)
    /\ \A k \in 1..Len(a) :
          /\ Len(a[k]) = Len(b[k])
          /\ \A j \in 1..Len(a[k]) : a[k][j] = b[k][j]

\* The right operand of a comparison: a CayleyGraph, an object of another type
\* that happens to have an ordered_adjacencies() method giving back a list
\* ("duck"), or any other object ("object": None, a number, a list, ...).
GraphOperand(g) == [kind |-> "CayleyGraph", obj |-> g]

DuckOperand(adj) == [kind |-> "duck", obj |-> adj]

PlainOperand == [kind |-> "object", obj |-> <<>>]

\* other.ordered_adjacencies(): the attribute look-up fails on an object that
\* has no such method.
other_ordered_adjacencies(other) ==
    CASE other.kind = "CayleyGraph" -> ordered_adjacencies(other.obj)
      [] other.kind = "duck"        -> Return(other.obj)
      [] OTHER                      -> Raise("AttributeError", <<>>)

\* (a variant that answers False for an operand that is no CayleyGraph)
__eq__typed(self, other) ==
    IF other.kind # "CayleyGraph" THEN Return(FALSE)
    ELSE LET a == ordered_adjacencies(self)
         IN  IF a.exc # "" THEN Raise(a.exc, FALSE)
             ELSE LET b == other_ordered_adjacencies(other)
                  IN  IF b.exc # "" THEN Raise(b.exc, FALSE)
                      ELSE Return(list_eq(a.value, b.value))

\* __eq__: self.ordered_adjacencies() == other.ordered_adjacencies(), the left
\* call first; an exception of either call leaves the comparison.
__eq__(self, other) ==
    LET a == ordered_adjacencies(self)
    IN  IF a.exc # "" THEN Raise(a.exc, FALSE)
        ELSE LET b == other_ordered_adjacencies(other)
             IN  IF b.exc # "" THEN Raise(b.exc, FALSE)
                 ELSE Return(list_eq(a.value, b.value))

\* __ne__: not self == other.
__ne__(self, other) ==
    LET r == __eq__(self, other)
    IN  IF r.exc # "" THEN r ELSE Return(~r.value)

(* ------------------- the adjacency lists of the design ----------------- *)

\* The targets of the edges whose source is node n, in edge-insertion order.
targets_of(self, n) ==
    LET from_n == SelectSeq(edges(self), LAMBDA e : e[1] = n)
    IN  [k \in 1..Len(from_n) |-> from_n[k][2]]

\* One bucket per node, in node-insertion order.
adjacency_lists(self) ==
    [k \in 1..Len(nodes(self)) |-> targets_of(self, nodes(self)[k])]

(* ------------------------------ the state ------------------------------ *)

\* graphs: the CayleyGraph objects.  calls: for each graph, the arguments
\* <<label, source, target>> of the addEdge calls made on it so far, in call
\* order (a history, read by no operation).
\* last: the comparison made by the latest call and what it gave; NoCall after
\* a call that gives nothing back.
NoCall == [op |-> "none", kind |-> "", out |-> Return(FALSE)]

Init ==
    /\ graphs = [g \in GraphIds |-> CayleyGraph]
    /\ calls = [g \in GraphIds |-> <<>>]
    /\ last = NoCall

AddNode(g, node) ==
    /\ graphs' = [graphs EXCEPT ![g] = _add_node(@, node)]
    /\ last' = NoCall
    /\ UNCHANGED calls

AddEdge(g, label, source, target) ==
    /\ graphs' = [graphs EXCEPT ![g] = _add_edge_with_label(@, label, <<source, target>>)]
    /\ calls' = [calls EXCEPT ![g] = Append(@, <<label, source, target>>)]
    /\ last' = NoCall

\* The party that builds the graph assigns _adjacencies_list from outside the
\* class (no method of the class does): here, the adjacency lists of the graph
\* as it is at that moment.
SetAdjacenciesList(g) ==
    /\ graphs' = [graphs EXCEPT ![g]._adjacencies_list = Bound(adjacency_lists(graphs[g]))]
    /\ last' = NoCall
    /\ UNCHANGED calls

Eq(g, other) ==
    /\ last' = [op |-> "eq", kind |-> other.kind, out |-> __eq__(graphs[g], other)]
    /\ UNCHANGED <<graphs, calls>>

Ne(g, other) ==
    /\ last' = [op |-> "ne", kind |-> other.kind, out |-> __ne__(graphs[g], other)]
    /\ UNCHANGED <<graphs, calls>>

\* What a duck operand's ordered_adjacencies() may give back.
DuckLists == {<<>>, <<<<0>>>>}

NumEdges(g) == Len(calls[g])

\* The number of addEdge calls on g so far whose source is the given node.
OutCount(g, source) == Len(SelectSeq(calls[g], LAMBDA c : c[2] = source))

\* Spec: one graph, G, built by the two mutators, each edge labelled as the
\* party that builds a Cayley graph labels it: the j-th edge leaving a node
\* carries generator j - 1.
Next ==
    \/ \E node \in 0..MaxNode : AddNode("G", node)
    \/ \E source, target \in 0..MaxNode :
          /\ NumEdges("G") < MaxEdges
          /\ AddEdge("G", OutCount("G", source), source, target)

Spec == Init /\ [][Next]_vars

\* SpecLabel: the same with any label on any edge.
NextLabel ==
    \/ \E node \in 0..LabelMaxNode : AddNode("G", node)
    \/ \E label \in Labels, source, target \in 0..LabelMaxNode :
          /\ NumEdges("G") < LabelMaxEdges
          /\ AddEdge("G", label, source, target)

SpecLabel == Init /\ [][NextLabel]_vars

\* SpecAdj: G is built by the two mutators; _adjacencies_list of G and of the
\* otherwise untouched graph H is assigned from outside at any moment; G is
\* compared with itself, with H, and with objects that are no CayleyGraph.
MutateAdj ==
    \/ \E node \in 0..AdjMaxNode : AddNode("G", node)
    \/ \E label \in Labels, source, target \in 0..AdjMaxNode :
          /\ NumEdges("G") < AdjMaxEdges
          /\ AddEdge("G", label, source, target)

Assign == \E g \in GraphIds : SetAdjacenciesList(g)

Compare ==
    \/ \E h \in GraphIds : Eq("G", GraphOperand(graphs[h]))
    \/ \E h \in GraphIds : Ne("G", GraphOperand(graphs[h]))
    \/ Eq("G", PlainOperand)
    \/ Ne("G", PlainOperand)
    \/ \E adj \in DuckLists : Eq("G", DuckOperand(adj))
    \/ \E adj \in DuckLists : Ne("G", DuckOperand(adj))

NextAdj == MutateAdj \/ Assign \/ Compare

SpecAdj == Init /\ [][NextAdj]_vars

(* ================= properties of SpecLabel and Spec ==================== *)

NoRepeat(s) == \A j, k \in 1..Len(s) : s[j] = s[k] => j = k

\* s, with n at its end when n is not in it.
WithNode(s, n) == IF n \in Range(s) THEN s ELSE Append(s, n)

\* C4: edges() is the (source, target) pairs of the addEdge calls, in call
\* order, one entry per call (nothing merged, nothing dropped); one more
\* addEdge appends its pair behind the entries there are, and an addNode leaves
\* edges() as it is.
C4_EdgesInCallOrder ==
    LET G == graphs["G"]
    IN  /\ Len(edges(G)) = Len(calls["G"])
        /\ \A k \in 1..Len(calls["G"]) : edges(G)[k] = <<calls["G"][k][2], calls["G"][k][3]>>
        /\ \A label \in Labels, source, target \in 0..LabelMaxNode :
              edges(_add_edge_with_label(G, label, <<source, target>>))
                 = Append(edges(G), <<source, target>>)
        /\ \A node \in 0..LabelMaxNode : edges(_add_node(G, node)) = edges(G)

\* C4's case: the same pair added twice, under two different labels.
C4_Witness ==
    /\ Len(calls["G"]) >= 2
    /\ \E j, k \in 1..Len(calls["G"]) :
          /\ j < k
          /\ calls["G"][j][1] # calls["G"][k][1]
          /\ edges(graphs["G"])[j] = edges(graphs["G"])[k]
          /\ edges(graphs["G"])[j][1] # edges(graphs["G"])[j][2]

\* C5: nodes() holds no node twice; addNode(n) of a node that is there leaves
\* nodes() as it is, addNode(n) of one that is not appends n behind the others,
\* and a second addNode(n) changes nothing.
C5_AddNodeIdempotent ==
    LET G == graphs["G"]
    IN  /\ NoRepeat(nodes(G))
        /\ \A n \in 0..MaxNode :
              /\ nodes(_add_node(G, n))
                    = IF n \in Range(nodes(G)) THEN nodes(G) ELSE Append(nodes(G), n)
              /\ nodes(_add_node(_add_node(G, n), n)) = nodes(_add_node(G, n))

\* C5's case: some nodes are there, out of numeric order, and one is not.
C5_Witness ==
    /\ Len(nodes(graphs["G"])) >= 2
    /\ nodes(graphs["G"])[1] > nodes(graphs["G"])[2]
    /\ \E n \in 0..MaxNode : n \notin Range(nodes(graphs["G"]))

\* C8: both ends of every pair of edges() are in nodes(); addEdge puts a
\* missing source, then a missing target, at the end of nodes() and leaves the
\* nodes that are there where they are.
C8_EndpointsAreNodes ==
    LET G == graphs["G"]
    IN  /\ \A k \in 1..Len(edges(G)) :
              /\ edges(G)[k][1] \in Range(nodes(G))
              /\ edges(G)[k][2] \in Range(nodes(G))
        /\ \A label \in Labels, source, target \in 0..MaxNode :
              nodes(_add_edge_with_label(G, label, <<source, target>>))
                 = WithNode(WithNode(nodes(G), source), target)

\* C8's case: an edge whose target came before its source, and a node that is
\* no end of any edge.
C8_Witness ==
    LET G == graphs["G"]
    IN  /\ Len(edges(G)) >= 1
        /\ \E k \in 1..Len(edges(G)) :
              node_index(G._graph, edges(G)[k][2]) < node_index(G._graph, edges(G)[k][1])
        /\ \E n \in Range(nodes(G)) :
              \A k \in 1..Len(edges(G)) : n # edges(G)[k][1] /\ n # edges(G)[k][2]

(* ================== strongly connected components ====================== *)

\* The nodes that a directed path of length >= 0 over the pairs E leads to from
\* a node of S.
RECURSIVE ReachableFrom(_, _)
ReachableFrom(E, S) ==
    LET T == S \cup {e[2] : e \in {f \in E : f[1] \in S}}
    IN  IF T = S THEN S ELSE ReachableFrom(E, T)

\* There is a directed path from u to v along the pairs of edges().
Reaches(self, u, v) == v \in ReachableFrom(Range(edges(self)), {u})

\* u and v lie together in one of the components of the list comps.
Together(comps, u, v) == \E k \in 1..Len(comps) : u \in comps[k] /\ v \in comps[k]

\* The graph of the design's example: nodes 0..3 added in turn, then the edges
\* (0,0),(0,2),(1,0),(1,3),(2,0),(3,1), generator 0 before generator 1 at each
\* node where both are there.
ExampleEdges ==
    << <<0, <<0, 0>>>>, <<1, <<0, 2>>>>, <<0, <<1, 0>>>>,
       <<1, <<1, 3>>>>, <<0, <<2, 0>>>>, <<1, <<3, 1>>>> >>

RECURSIVE WithExampleEdges(_, _)
WithExampleEdges(self, k) ==
    IF k = 0 THEN self
    ELSE _add_edge_with_label(WithExampleEdges(self, k - 1),
                              ExampleEdges[k][1], ExampleEdges[k][2])

ExampleGraph ==
    WithExampleEdges(_add_node(_add_node(_add_node(_add_node(CayleyGraph, 0), 1), 2), 3),
                     Len(ExampleEdges))

ExampleComponents == strongly_connected_components(ExampleGraph)

\* C1: the components returned are non-empty, no two of them (at different
\* places of the list) share a node, and together they are exactly the nodes
\* of nodes(); so every node, with or without edges, is in exactly one.
C1_ComponentsPartitionNodes ==
    LET G == graphs["G"]
        c == strongly_connected_components(G)
    IN  /\ \A k \in 1..Len(c) : c[k] # {}
        /\ \A j, k \in 1..Len(c) : j # k => c[j] \cap c[k] = {}
        /\ UNION Range(c) = Range(nodes(G))

\* C1's case: a node without any edge beside a component of two nodes or more.
C1_Witness ==
    LET G == graphs["G"]
        c == strongly_connected_components(G)
    IN  /\ \E k \in 1..Len(c) : Cardinality(c[k]) >= 2
        /\ \E n \in Range(nodes(G)) :
              /\ \A k \in 1..Len(edges(G)) : n # edges(G)[k][1] /\ n # edges(G)[k][2]
              /\ \E k \in 1..Len(c) : c[k] = {n}

\* C2: two nodes are in the same component exactly when each reaches the other
\* by a directed path (of length >= 0); and the example graph has exactly the
\* two components {0,2} and {1,3}.
C2_ComponentsAreMutualReachability ==
    LET G     == graphs["G"]
        comps == strongly_connected_components(G)
        E     == Range(edges(G))
    IN  /\ \A u \in Range(nodes(G)) :
              LET from_u == ReachableFrom(E, {u})
              IN  \A v \in Range(nodes(G)) :
                     Together(comps, u, v)
                        <=> (v \in from_u /\ u \in ReachableFrom(E, {v}))
        /\ Len(ExampleComponents) = 2
        /\ Range(ExampleComponents) = {{0, 2}, {1, 3}}

\* C2's case: two nodes on a common cycle, in one component, and a third node
\* of the graph, off the cycle, in another.
C2_Witness ==
    LET G     == graphs["G"]
        comps == strongly_connected_components(G)
    IN  \E u, v, w \in Range(nodes(G)) :
           /\ u # v
           /\ Reaches(G, u, v)
           /\ Reaches(G, v, u)
           /\ Together(comps, u, v)
           /\ ~Reaches(G, w, u)
           /\ ~Together(comps, u, w)

\* The members of a set of numbers, ascending.
RECURSIVE Ascending(_)
Ascending(S) == IF S = {} THEN <<>> ELSE <<Min(S)>> \o Ascending(S \ {Min(S)})

PairBefore(e, f) == e[1] < f[1] \/ (e[1] = f[1] /\ e[2] < f[2])

\* The members of a set of pairs, in lexicographic order.
RECURSIVE Lexicographic(_)
Lexicographic(S) ==
    IF S = {} THEN <<>>
    ELSE LET e == CHOOSE e \in S : \A f \in S : e = f \/ PairBefore(e, f)
         IN  <<e>> \o Lexicographic(S \ {e})

RECURSIVE WithNodes(_, _, _)
WithNodes(self, ns, k) ==
    IF k = 0 THEN self ELSE _add_node(WithNodes(self, ns, k - 1), ns[k])

RECURSIVE WithEdges(_, _, _)
WithEdges(self, es, k) ==
    IF k = 0 THEN self ELSE _add_edge_with_label(WithEdges(self, es, k - 1), 0, es[k])

\* The graph of node set N and pair set P built in one fixed way: the nodes
\* added in ascending order, then each pair added once, with generator 0, in
\* lexicographic order.
Rebuilt(N, P) ==
    WithEdges(WithNodes(CayleyGraph, Ascending(N), Cardinality(N)),
              Lexicographic(P), Cardinality(P))

\* C10: the collection of components is that of the graph rebuilt from the node
\* set and the set of distinct pairs alone; so any two graphs that agree on
\* both have the same components, whatever their labels, their parallel edges
\* and the order of their insertions.  The computation ends on every graph (the
\* value below exists), and a node with a self-loop is in a component.
C10_ComponentsFromNodeAndPairSets ==
    LET G     == graphs["G"]
        comps == strongly_connected_components(G)
    IN  /\ Range(comps)
              = Range(strongly_connected_components(
                          Rebuilt(Range(nodes(G)), Range(edges(G)))))
        /\ \A n \in Range(nodes(G)) :
              <<n, n>> \in Range(edges(G)) => Together(comps, n, n)

\* C10's case: a graph that differs from its rebuilt one in label, in a parallel
\* edge and in node order, and has a self-loop.
C10_Witness ==
    LET G == graphs["G"]
    IN  /\ \E j, k \in 1..Len(edges(G)) : j # k /\ edges(G)[j] = edges(G)[k]
        /\ \E k \in 1..Len(calls["G"]) : calls["G"][k][1] = 1
        /\ \E k \in 1..Len(edges(G)) : edges(G)[k][1] = edges(G)[k][2]
        /\ Len(nodes(G)) >= 2
        /\ nodes(G)[1] > nodes(G)[2]
        /\ G._graph # Rebuilt(Range(nodes(G)), Range(edges(G)))._graph

(* ===================== properties of SpecAdj =========================== *)

RECURSIVE TotalLen(_)
TotalLen(buckets) ==
    IF buckets = <<>> THEN 0 ELSE Len(buckets[1]) + TotalLen(Tail(buckets))

\* A comparison gave True.
Holds(r) == r.exc = "" /\ r.value

\* C3: once edges were added, ordered_adjacencies() gives one entry per node in
\* nodes() order, the i-th being the targets of the edges leaving the i-th
\* node in insertion order, with every addEdge made so far in it.
C3_OrderedAdjacenciesCurrent ==
    NumEdges("G") > 0
       => ordered_adjacencies(graphs["G"]) = Return(adjacency_lists(graphs["G"]))

\* C6: ordered_adjacencies() gives buckets whose lengths add up to the number
\* of addEdge calls made so far, the length of edges().
C6_AdjacencyCardinality ==
    LET r == ordered_adjacencies(graphs["G"])
    IN  /\ r.exc = ""
        /\ TotalLen(r.value) = NumEdges("G")
        /\ TotalLen(r.value) = Len(edges(graphs["G"]))

\* C7: G == H gives True exactly when both ordered_adjacencies() give lists
\* that are equal position by position, and G != H gives True exactly when
\* G == H does not.
C7_EqualityIsAdjacencyEquality ==
    \A h \in GraphIds :
       LET a  == ordered_adjacencies(graphs["G"])
           b  == ordered_adjacencies(graphs[h])
           eq == __eq__(graphs["G"], GraphOperand(graphs[h]))
           ne == __ne__(graphs["G"], GraphOperand(graphs[h]))
       IN  /\ Holds(eq) <=> (a.exc = "" /\ b.exc = "" /\ a.value = b.value)
           /\ Holds(ne) <=> ~Holds(eq)

====
